---- MODULE Spec2Model ----
(***************************************************************************)
(* Ingestion orchestration of treeherder/etl/management/commands/ingest.py *)
(* as a state machine: the module-level construction of stateToExchange,   *)
(* the paginated task-group fetcher, processTasks / handleTaskId,          *)
(* handleTask's run loop, the await_futures dispatcher over                *)
(* routine_to_future units, process_job_with_threads around the           *)
(* database-connection semaphore, the decision-task lookup of the push     *)
(* branch, and the GitHub push ingestion (repo_meta, query_data,           *)
(* ingestGitPush, ingestGitPushes).                                        *)
(*                                                                         *)
(* Collaborators (the queue service, handleMessage, JobLoader) are the     *)
(* environment: each call returns one of the outcomes drawn with \E, or    *)
(* raises.  root_url is passed through unchanged by every function and is  *)
(* left out of the messages.                                               *)
(***************************************************************************)
EXTENDS Integers, Sequences, FiniteSets, TLC

VARIABLES
    mapSrc,            \* the forward mapping iterated at import, as (key, value) items in dict order
    mapItems,          \* items of mapSrc the import loop has not visited yet
    stateToExchange,   \* the module-level dict built by the loop
    mpc,               \* import position: "building", then "built" (the loop has no raise)
    pc,                \* position of the driver coroutine on the event loop
    perr,              \* the exception that escaped the driver, "none" if none
    continuationToken, \* fetchGroupTasks local
    query,             \* fetchGroupTasks local: the continuationToken of the query dict, None for {}
    ftasks,            \* fetchGroupTasks local `tasks`
    tasks,             \* processTasks local `tasks`: [bound, val]
    units,             \* one entry per unit of the task batch: its status and, while it runs, handleTask's frame
    held,              \* slots of the connection semaphore currently taken
    reqLog,            \* history of the fetchGroupTasks call: the query of every request sent
    responses,         \* history of the fetchGroupTasks call: every response received
    fetchErr,          \* history: a listTaskGroup request raised
    hist,              \* history of the latest handleTask call: its task, the runs visited,
                       \* the messages submitted, the payloads returned and those loaded
    repos,             \* the Repository table: the project names that have a row
    rq,                \* the push ingestion asked for: [op, project]
    gpc,               \* position of the push ingestion
    repo,              \* ingestGitPush local `_repo`: the metadata repo_meta returned
    left,              \* ingestGitPushes: commits of the listing not yet ingested
    eventBaseSha,      \* query_data local
    pidx,              \* query_data: position of `for parent in parents`
    compareResponse,   \* query_data local: the latest comparison response
    compareLog,        \* history of the query_data call: the base of every comparison requested
    firstResponse,     \* history of the query_data call: the first comparison response
    parentLog,         \* history of the query_data call: every parent commit fetched
    result,            \* what query_data returned: [set, base, commits]
    pushed,            \* history: every push handed to a loader, by the loader and the project of its metadata
    indexStatus,       \* find_task_id: status code of the index response, 0 before it
    gather             \* handleTaskId: the two requests of asyncio.gather and the handleTask calls made

vars == <<mapSrc, mapItems, stateToExchange, mpc, pc, perr, continuationToken, query,
          ftasks, tasks, units, held, reqLog, responses, fetchErr, hist,
          repos, rq, gpc, repo, left, eventBaseSha, pidx, compareResponse, compareLog,
          firstResponse, parentLog, result, pushed, indexStatus, gather>>

mapVars == <<mapSrc, mapItems, stateToExchange, mpc>>
fetchVars == <<continuationToken, query, ftasks, reqLog, responses, fetchErr>>
queryVars == <<eventBaseSha, pidx, compareResponse, compareLog, firstResponse, parentLog, result>>
pushVars == <<repos, rq, gpc, repo, left, queryVars, pushed>>
entryVars == <<indexStatus, gather>>
runVars == <<pc, perr, fetchVars, tasks, units, held, hist, entryVars>>

---------------------------------------------------------------------------
\* Bounds of the model.
MaxTasks == 2
MaxRuns == 2
MaxPages == 3
MaxJobs == 2
SlotCount == 2
MaxMapSize == 3
MaxParents == 2
MaxCommits == 2

\* executor = ThreadPoolExecutor(): the default pool has min(32, cpu_count + 4)
\* worker threads, five at the least.
MaxWorkers == 5

\* find_task_id: the status code that means the index has no such path.
NotFound == 404

\* Python values.
None == "None"
EmptyStr == ""
Truthy(s) == s # None /\ s # EmptyStr

\* Continuation tokens the queue service hands out: opaque non-empty strings.
Tokens == {"a", "b"}

\* Run states the queue service reports in the modelled batches (two of the
\* five states of EXCHANGE_EVENT_MAP).
RunStates == {"completed", "exception"}

\* treeherder.etl.taskcluster_pulse.handler.EXCHANGE_EVENT_MAP: exchange -> state.
EXCHANGE_EVENT_MAP ==
    << <<"task-pending", "pending">>,
       <<"task-running", "running">>,
       <<"task-completed", "completed">>,
       <<"task-failed", "failed">>,
       <<"task-exception", "exception">> >>

---------------------------------------------------------------------------
\* Module import: stateToExchange = {}; for key, value in items: stateToExchange[value] = key

EmptyDict == [x \in {} |-> ""]

SetItem(d, k, v) == [x \in (DOMAIN d) \cup {k} |-> IF x = k THEN v ELSE d[x]]

ImportStep ==
    /\ mpc = "building"
    /\ IF mapItems = <<>>
       THEN /\ mpc' = "built"
            /\ UNCHANGED <<mapItems, stateToExchange>>
       ELSE /\ stateToExchange' = SetItem(stateToExchange, Head(mapItems)[2], Head(mapItems)[1])
            /\ mapItems' = Tail(mapItems)
            /\ mpc' = mpc
    /\ UNCHANGED <<mapSrc, pushVars, entryVars, pc, perr, fetchVars, tasks, units, held, hist>>

---------------------------------------------------------------------------
\* Data handed in by the queue service.  A listed task is known by its
\* taskId; its status (the runs) is drawn where handleTask first reads it.

MkRuns(f) == [k \in 1..Len(f) |-> [runId |-> k - 1, state |-> f[k]]]

RunLists == UNION {{MkRuns(f) : f \in [1..n -> RunStates]} : n \in 0..MaxRuns}

TaskIds(n0, maxn) == {[k \in 1..L |-> n0 + k] : L \in 0..maxn}

MkTask(id, runs) == [taskId |-> id, runs |-> runs]

NoTask == MkTask(0, <<>>)

UnboundLocal == [bound |-> FALSE, val |-> <<>>]
Bound(v) == [bound |-> TRUE, val |-> v]

Finished == {"done", "failed"}

\* A unit of the task batch.  The frame fields are handleTask's locals; they
\* exist from the call to its return or raise.
NewUnit ==
    [st |-> "new", err |-> "none", task |-> NoTask, hpc |-> "loop", ridx |-> 0,
     taskRuns |-> UnboundLocal, jobs |-> <<>>]

CallFrame(task) == [NewUnit EXCEPT !.st = "running", !.task = task, !.ridx = Len(task.runs)]

Returned == [NewUnit EXCEPT !.st = "done"]

Raised(e) == [NewUnit EXCEPT !.st = "failed", !.err = e]

NoHist ==
    [call |-> 0, task |-> NoTask, visited |-> <<>>, submitted |-> <<>>,
     returned |-> <<>>, loaded |-> <<>>]

NewHist(i, task) == [NoHist EXCEPT !.call = i, !.task = task]

Statuses(us) == [k \in 1..Len(us) |-> us[k].st]

---------------------------------------------------------------------------
\* await_futures over a list of routine_to_future coroutines.  A coroutine
\* starts when it is awaited, so unit k starts once the units before it have
\* finished; an Exception of a unit is caught and logged, and the loop goes on.

\* routine_to_future: run_in_executor(executor, ...) on the one shared pool.
\* The workers taken: the task units running under processTasks and the job
\* units between their start and their end.
InWorker == {"waiting", "loading"}

WorkersBusy ==
    LET RECURSIVE busy(_)
        busy(i) ==
            IF i = 0 THEN 0
            ELSE busy(i - 1)
                 + (IF pc = "dispatch" /\ units[i].st = "running" THEN 1 ELSE 0)
                 + Cardinality({k \in 1..Len(units[i].jobs) : units[i].jobs[k] \in InWorker})
    IN busy(Len(units))

WorkerFree == WorkersBusy < MaxWorkers

\* Units started all at once, as futures scheduled up front would be.
AwaitTurnEager(sts, k) == sts[k] = "new"

AwaitTurn(sts, k) == sts[k] = "new" /\ \A j \in 1..(k - 1) : sts[j] \in Finished

\* await_futures without its except clause: the first failed unit ends the loop.
AfStateNoCatch(sts) ==
    IF \E k \in 1..Len(sts) : sts[k] = "failed" THEN "raised"
    ELSE IF \A k \in 1..Len(sts) : sts[k] \in Finished THEN "returned" ELSE "awaiting"

\* The units handed to the executor and never awaited.
AfStateNoWait(sts) == "returned"

\* await_futures returning from inside the loop, after the first unit.
AfStateFirstOnly(sts) ==
    IF Len(sts) = 0 \/ sts[1] \in Finished THEN "returned" ELSE "awaiting"

AfState(sts) ==
    IF \A k \in 1..Len(sts) : sts[k] \in Finished THEN "returned" ELSE "awaiting"

---------------------------------------------------------------------------
\* Command.handle picks the ingestion: processTasks or handleTaskId.

\* The push branch with --ingest-all-tasks, after the repository lookup and
\* the pushlog ingestion: get_decision_task_id(project, commit, ...).
GetDecisionTaskIdCall ==
    /\ mpc = "built" /\ pc = "start"
    /\ pc' = "index"
    /\ UNCHANGED <<mapVars, pushVars, entryVars, perr, fetchVars, tasks, units, held, hist>>

\* The index answers: the path is known (200) or not (404).
StatusCodes == {200, NotFound}

\* find_task_id that takes every response for a hit.
FindTaskIdNeverRaises(status) == FALSE

FindTaskIdRaises(status) == status = NotFound

\* find_task_id returns the taskId of the decision task or raises; nothing
\* between there and Command.handle catches.
FindTaskIdReturn ==
    /\ pc = "index"
    /\ \E status \in StatusCodes :
         /\ indexStatus' = status
         /\ IF FindTaskIdRaises(status)
            THEN pc' = "raised" /\ perr' = "IndexNotFound"
            ELSE pc' = "decided" /\ perr' = perr
    /\ UNCHANGED <<mapVars, pushVars, gather, fetchVars, tasks, units, held, hist>>

ProcessTasksCall ==
    /\ mpc = "built" /\ pc = "decided"
    /\ pc' = "fetch"
    /\ UNCHANGED <<mapVars, pushVars, entryVars, perr, fetchVars, tasks, units, held, hist>>

\* asyncio.gather of handleTaskId: a request is "sent", then "ok" or "failed".
NoGather == [status |-> "none", task |-> "none", nStatus |-> 0, nTask |-> 0, calls |-> 0]

Requests == {"status", "task"}

\* handleTaskId: both requests are started by the gather.
HandleTaskIdCall ==
    /\ mpc = "built" /\ pc = "start"
    /\ pc' = "gather"
    /\ gather' = [gather EXCEPT !.status = "sent", !.task = "sent",
                                !.nStatus = @ + 1, !.nTask = @ + 1]
    /\ UNCHANGED <<mapVars, pushVars, indexStatus, perr, fetchVars, tasks, units, held, hist>>

RequestReturn(r) ==
    /\ pc = "gather" /\ gather[r] = "sent"
    /\ gather' = [gather EXCEPT ![r] = "ok"]
    /\ UNCHANGED <<mapVars, pushVars, indexStatus, pc, perr, fetchVars, tasks, units, held, hist>>

RequestRaise(r) ==
    /\ pc = "gather" /\ gather[r] = "sent"
    /\ gather' = [gather EXCEPT ![r] = "failed"]
    /\ UNCHANGED <<mapVars, pushVars, indexStatus, pc, perr, fetchVars, tasks, units, held, hist>>

\* A gather that hands back as soon as one result is there.
GatherDoneEither(g) == g.status = "ok" \/ g.task = "ok"

\* gather returns the results once both are there, and raises the first
\* exception of either as soon as it occurs.
GatherDone(g) == g.status = "ok" /\ g.task = "ok"

GatherFailed(g) == g.status = "failed" \/ g.task = "failed"

\* fetchGroupTasks: one pass of the while loop.
\* The query dict never takes the token up.
NextQueryStale(tok, q) == q

NextQuery(tok, q) == IF Truthy(tok) THEN tok ELSE q

Extend(acc, page) == acc \o page

LoopEnds(tok) == tok = None

\* The listing responses the service may give to the next request.
Responses ==
    { [tasks |-> ts, continuationToken |-> t] :
        ts \in TaskIds(Len(ftasks), MaxTasks - Len(ftasks)),
        t \in (IF Len(reqLog) + 1 >= MaxPages THEN {None} ELSE Tokens \cup {None}) }

ListTaskGroupReturn ==
    /\ pc = "fetch"
    /\ \E resp \in Responses :
         /\ query' = NextQuery(continuationToken, query)
         /\ reqLog' = Append(reqLog, query')
         /\ responses' = Append(responses, resp)
         /\ ftasks' = Extend(ftasks, resp.tasks)
         /\ continuationToken' = resp.continuationToken
         /\ pc' = IF LoopEnds(continuationToken') THEN "fetched" ELSE "fetch"
    /\ UNCHANGED <<mapVars, pushVars, entryVars, perr, fetchErr, tasks, units, held, hist>>

\* processTasks after its try statement: `if not tasks: return`, else the
\* task units are built and awaited.  Reading an unbound local raises.
AfterFetch(t) ==
    IF ~t.bound
    THEN /\ pc' = "raised" /\ perr' = "UnboundLocalError"
         /\ units' = units
    ELSE IF Len(t.val) = 0
    THEN /\ pc' = "done" /\ perr' = perr
         /\ units' = units
    ELSE /\ pc' = "dispatch" /\ perr' = perr
         /\ units' = [k \in 1..Len(t.val) |-> NewUnit]

\* `return tasks` of fetchGroupTasks into processTasks; the call's locals go.
FetchGroupTasksReturn ==
    /\ pc = "fetched"
    /\ tasks' = Bound(ftasks)
    /\ AfterFetch(tasks')
    /\ continuationToken' = EmptyStr /\ query' = None /\ ftasks' = <<>>
    /\ reqLog' = <<>> /\ responses' = <<>>
    /\ UNCHANGED <<mapVars, pushVars, entryVars, fetchErr, held, hist>>

\* A listing request raises: fetchGroupTasks does not catch, processTasks
\* catches and logs, then goes on after the try statement.
ListTaskGroupRaise ==
    /\ pc = "fetch"
    /\ query' = NextQuery(continuationToken, query)
    /\ reqLog' = Append(reqLog, query')
    /\ fetchErr' = TRUE
    /\ AfterFetch(tasks)
    /\ UNCHANGED <<mapVars, pushVars, entryVars, continuationToken, ftasks, responses, tasks, held, hist>>

\* handleTaskId: gather(status(taskId), task(taskId)), then handleTask is
\* awaited on the event loop itself.
GatherReturn ==
    /\ pc = "gather"
    /\ GatherDone(gather)
    /\ gather' = [gather EXCEPT !.calls = @ + 1]
    /\ \E runs \in RunLists :
         /\ units' = << CallFrame(MkTask(1, runs)) >>
         /\ hist' = NewHist(1, MkTask(1, runs))
    /\ pc' = "single"
    /\ UNCHANGED <<mapVars, pushVars, indexStatus, perr, fetchVars, tasks, held>>

GatherRaise ==
    /\ pc = "gather"
    /\ GatherFailed(gather)
    /\ pc' = "raised" /\ perr' = "RequestError"
    /\ UNCHANGED <<mapVars, pushVars, entryVars, fetchVars, tasks, units, held, hist>>

HandleTaskIdReturn ==
    /\ pc = "single"
    /\ units[1].st \in Finished
    /\ IF units[1].st = "failed"
       THEN pc' = "raised" /\ perr' = units[1].err
       ELSE pc' = "done" /\ perr' = perr
    /\ UNCHANGED <<mapVars, pushVars, entryVars, fetchVars, tasks, units, held, hist>>

\* processTasks: await_futures(taskFutures) hands control back; an exception
\* of await_futures would leave processTasks with it.
ProcessTasksReturn ==
    /\ pc = "dispatch"
    /\ AfState(Statuses(units)) # "awaiting"
    /\ IF AfState(Statuses(units)) = "raised"
       THEN pc' = "raised" /\ perr' = "UnitError"
       ELSE pc' = "done" /\ perr' = perr
    /\ UNCHANGED <<mapVars, pushVars, entryVars, fetchVars, tasks, units, held, hist>>

---------------------------------------------------------------------------
\* handleTask, run in a worker thread by routine_to_future (asyncio.run).

StartTask(i) ==
    /\ pc = "dispatch"
    /\ AwaitTurn(Statuses(units), i)
    /\ WorkerFree
    /\ \E runs \in RunLists :
         /\ units' = [units EXCEPT ![i] = CallFrame(MkTask(tasks.val[i], runs))]
         /\ hist' = NewHist(i, MkTask(tasks.val[i], runs))
    /\ UNCHANGED <<mapVars, pushVars, entryVars, pc, perr, fetchVars, tasks, held>>

\* for run in reversed(runs): the run at list position ridx is next.
NextRun(runs, ridx) == runs[ridx]

Message(task, run) ==
    [exchange |-> stateToExchange[run.state],
     taskId |-> task.taskId,
     runs |-> task.runs,
     runId |-> run.runId]

HandleTaskLoop(i) ==
    /\ units[i].st = "running" /\ units[i].hpc = "loop"
    /\ LET u == units[i]
           run == NextRun(u.task.runs, u.ridx)
       IN IF u.ridx = 0
          THEN /\ units' = [units EXCEPT ![i] = Returned]
               /\ hist' = hist
          ELSE IF run.state \notin DOMAIN stateToExchange
          THEN /\ units' = [units EXCEPT ![i] = Raised("KeyError")]
               /\ hist' = [hist EXCEPT !.visited = Append(@, run.runId)]
          ELSE /\ units' = [units EXCEPT ![i].hpc = "call"]
               /\ hist' = [hist EXCEPT !.visited = Append(@, run.runId),
                                       !.submitted = Append(@, Message(u.task, run))]
    /\ UNCHANGED <<mapVars, pushVars, entryVars, pc, perr, fetchVars, tasks, held>>

\* Lines 80-84: `if taskRuns:` builds the job units and awaits them.
AfterTry(i, tr) ==
    IF ~tr.bound
    THEN units' = [units EXCEPT ![i] = Raised("UnboundLocalError")]
    ELSE IF Len(tr.val) > 0
    THEN units' = [units EXCEPT ![i].taskRuns = tr, ![i].hpc = "await",
                                ![i].jobs = [k \in 1..Len(tr.val) |-> "new"]]
    ELSE units' = [units EXCEPT ![i].taskRuns = tr, ![i].hpc = "loop",
                                ![i].ridx = @ - 1, ![i].jobs = <<>>]

\* What handleMessage hands back for a run: n job payloads of that run.
Payloads(task, run, n) == [k \in 1..n |-> [taskId |-> task.taskId, runId |-> run.runId, job |-> k]]

HandleMessageReturn(i, n) ==
    /\ units[i].st = "running" /\ units[i].hpc = "call"
    /\ LET u == units[i]
           ps == Payloads(u.task, NextRun(u.task.runs, u.ridx), n)
       IN /\ hist' = [hist EXCEPT !.returned = @ \o ps]
          /\ AfterTry(i, Bound(ps))
    /\ UNCHANGED <<mapVars, pushVars, entryVars, pc, perr, fetchVars, tasks, held>>

HandleMessageRaise(i) ==
    /\ units[i].st = "running" /\ units[i].hpc = "call"
    /\ AfterTry(i, units[i].taskRuns)
    /\ UNCHANGED <<mapVars, pushVars, entryVars, pc, perr, fetchVars, tasks, held, hist>>

\* await_futures(jobFutures) hands control back to the run loop; an
\* exception of await_futures would leave handleTask with it.
HandleTaskAwaitReturn(i) ==
    /\ units[i].st = "running" /\ units[i].hpc = "await"
    /\ AfState(units[i].jobs) # "awaiting"
    /\ IF AfState(units[i].jobs) = "raised"
       THEN units' = [units EXCEPT ![i] = Raised("UnitError")]
       ELSE units' = [units EXCEPT ![i].hpc = "loop", ![i].ridx = @ - 1]
    /\ UNCHANGED <<mapVars, pushVars, entryVars, pc, perr, fetchVars, tasks, held, hist>>

---------------------------------------------------------------------------
\* process_job_with_threads, run in a worker thread by routine_to_future.

\* treeherder.etl.db_semaphore: a counting semaphore of SlotCount slots.
\* A semaphore that never blocks.
AcquireNoLimit(h) == TRUE

AcquireEnabled(h) == h < SlotCount
Acquire(h) == h + 1
Release(h) == h - 1

JobStart(i, k) ==
    /\ units[i].st = "running" /\ units[i].hpc = "await"
    /\ AwaitTurn(units[i].jobs, k)
    /\ WorkerFree
    /\ units' = [units EXCEPT ![i].jobs[k] = "waiting"]
    /\ hist' = [hist EXCEPT !.loaded = Append(@, units[i].taskRuns.val[k])]
    /\ UNCHANGED <<mapVars, pushVars, entryVars, pc, perr, fetchVars, tasks, held>>

JobAcquire(i, k) ==
    /\ units[i].st = "running" /\ units[i].hpc = "await"
    /\ units[i].jobs[k] = "waiting"
    /\ AcquireEnabled(held)
    /\ held' = Acquire(held)
    /\ units' = [units EXCEPT ![i].jobs[k] = "loading"]
    /\ UNCHANGED <<mapVars, pushVars, entryVars, pc, perr, fetchVars, tasks, hist>>

\* JobLoader().process_job returns; release_connection() follows.
ProcessJobReturn(i, k) ==
    /\ units[i].st = "running" /\ units[i].hpc = "await"
    /\ units[i].jobs[k] = "loading"
    /\ held' = Release(held)
    /\ units' = [units EXCEPT ![i].jobs[k] = "done"]
    /\ UNCHANGED <<mapVars, pushVars, entryVars, pc, perr, fetchVars, tasks, hist>>

\* JobLoader().process_job raises; the function is left at that line.
ProcessJobRaise(i, k) ==
    /\ units[i].st = "running" /\ units[i].hpc = "await"
    /\ units[i].jobs[k] = "loading"
    /\ held' = held
    /\ units' = [units EXCEPT ![i].jobs[k] = "failed"]
    /\ UNCHANGED <<mapVars, pushVars, entryVars, pc, perr, fetchVars, tasks, hist>>

---------------------------------------------------------------------------
\* Push ingestion from GitHub: repo_meta, query_data, github_push_to_pulse,
\* ingestGitPush, ingestGitPushes; and the repository lookup of the hg push
\* branch of Command.handle.  The commit being ingested (the head of every
\* comparison) is passed through unchanged and left out.

Projects == {"fenix", "servo"}

Ops == {"git-push", "git-pushes", "push"}

\* Repository rows: the branch configured for a project.
BranchOf(project) == IF project = "fenix" THEN "master" ELSE "main"

NoRepo == [project |-> None, branch |-> None]

\* repo_meta(project): the row of that name, found or not.
RepoFound(project) == project \in repos

RepoMeta(project) == [project |-> project, branch |-> BranchOf(project)]

\* The name ingestGitPush hands to repo_meta.
RepoArg(project) == "fenix"

\* A commit of a comparison response, as the API reports it.
ApiCommit(n) ==
    [sha |-> <<"sha", n>>, message |-> <<"message", n>>,
     author |-> <<"author", n>>, committer |-> <<"committer", n>>]

\* The commit lists a response may carry: distinct commits in any order.
CommitLists ==
    UNION { { [k \in 1..n |-> ApiCommit(f[k])] :
                f \in {g \in [1..n -> 1..MaxCommits] : \A a, b \in 1..n : g[a] = g[b] => a = b} } :
            n \in 0..MaxCommits }

ParentShas == <<"p1", "p2", "p3", "p4">>

\* merge_base_commit of a response: absent, or a commit with its parents
\* (sha and url of each, known here by the sha).
NoMergeBase == [present |-> FALSE, parents |-> <<>>]

MergeBases ==
    {NoMergeBase} \cup { [present |-> TRUE, parents |-> [k \in 1..n |-> ParentShas[k]]] : n \in 0..MaxParents }

NoResponse == [commits |-> <<>>, merge_base_commit |-> NoMergeBase]

NoResult == [set |-> FALSE, base |-> None, commits |-> <<>>]

\* Lines 211-220: the commits of the response, converted one by one.
ConvertCommit(c) ==
    [message |-> c.message, author |-> c.author, committer |-> c.committer, id |-> c.sha]

\* The commits list built back to front.
BuildCommitsReversed(cs) == [k \in 1..Len(cs) |-> ConvertCommit(cs[Len(cs) + 1 - k])]

BuildCommits(cs) == [k \in 1..Len(cs) |-> ConvertCommit(cs[k])]

\* Lines 204-207: a parent that has parents becomes the base and ends the loop.
\* The loop without its break.
LoopNeverBreaks(parentCommit) == FALSE

LoopBreaks(parentCommit) == parentCommit.hasParents

QueryIdle ==
    /\ eventBaseSha = None /\ pidx = 0 /\ compareResponse = NoResponse
    /\ compareLog = <<>> /\ firstResponse = NoResponse /\ parentLog = <<>>
    /\ result = NoResult

\* ingestGitPush(project, commit) is called from Command.handle.
IngestGitPushCall ==
    /\ gpc = "start" /\ rq.op = "git-push"
    /\ gpc' = "ingest"
    /\ UNCHANGED <<mapVars, runVars, repos, rq, repo, left, queryVars, pushed>>

\* ingestGitPushes(project): repo_meta(project), then the commits listing.
IngestGitPushesCall ==
    /\ gpc = "start" /\ rq.op = "git-pushes"
    /\ IF RepoFound(rq.project)
       THEN \E n \in 0..MaxCommits :
              /\ left' = n
              /\ gpc' = IF n = 0 THEN "done" ELSE "ingest"
       ELSE /\ gpc' = "raised" /\ left' = left
    /\ UNCHANGED <<mapVars, runVars, repos, rq, repo, queryVars, pushed>>

\* Line 246: _repo = repo_meta(...), the first line of ingestGitPush.
IngestGitPushRepoMeta ==
    /\ gpc = "ingest"
    /\ IF RepoFound(RepoArg(rq.project))
       THEN /\ repo' = RepoMeta(RepoArg(rq.project))
            /\ gpc' = "compare"
       ELSE /\ repo' = repo
            /\ gpc' = "raised"
    /\ eventBaseSha' = None /\ pidx' = 0 /\ compareResponse' = NoResponse
    /\ compareLog' = <<>> /\ firstResponse' = NoResponse /\ parentLog' = <<>>
    /\ result' = NoResult
    /\ UNCHANGED <<mapVars, runVars, repos, rq, left, pushed>>

\* Lines 191-196 and, without a merge base, 211-220.
CompareFirst ==
    /\ gpc = "compare"
    /\ \E cs \in CommitLists, mb \in MergeBases :
         /\ compareResponse' = [commits |-> cs, merge_base_commit |-> mb]
         /\ firstResponse' = compareResponse'
         /\ IF mb.present
            THEN /\ gpc' = "parents" /\ pidx' = 1 /\ result' = result
            ELSE /\ gpc' = "pulse" /\ pidx' = pidx
                 /\ result' = [set |-> TRUE, base |-> repo.branch, commits |-> BuildCommits(cs)]
    /\ eventBaseSha' = repo.branch
    /\ compareLog' = Append(compareLog, repo.branch)
    /\ UNCHANGED <<mapVars, runVars, repos, rq, repo, left, parentLog, pushed>>

\* Lines 202-207: one pass of `for parent in parents`, or its end.
ParentFetch ==
    /\ gpc = "parents"
    /\ LET parents == compareResponse.merge_base_commit.parents
       IN IF pidx > Len(parents)
          THEN /\ gpc' = "compare2"
               /\ UNCHANGED <<eventBaseSha, pidx, parentLog>>
          ELSE \E hp \in BOOLEAN :
                 LET parentCommit == [sha |-> parents[pidx], hasParents |-> hp]
                 IN /\ parentLog' = Append(parentLog, parentCommit)
                    /\ eventBaseSha' = IF parentCommit.hasParents THEN parents[pidx] ELSE eventBaseSha
                    /\ IF LoopBreaks(parentCommit)
                       THEN gpc' = "compare2" /\ pidx' = pidx
                       ELSE gpc' = gpc /\ pidx' = pidx + 1
    /\ UNCHANGED <<mapVars, runVars, repos, rq, repo, left, compareResponse, compareLog,
                   firstResponse, result, pushed>>

\* Lines 209-220: the comparison against the corrected base.
CompareSecond ==
    /\ gpc = "compare2"
    /\ \E cs \in CommitLists :
         /\ compareResponse' = [commits |-> cs, merge_base_commit |-> compareResponse.merge_base_commit]
         /\ result' = [set |-> TRUE, base |-> eventBaseSha, commits |-> BuildCommits(cs)]
    /\ compareLog' = Append(compareLog, eventBaseSha)
    /\ gpc' = "pulse"
    /\ UNCHANGED <<mapVars, runVars, repos, rq, repo, left, eventBaseSha, pidx,
                   firstResponse, parentLog, pushed>>

\* A request of query_data raises (fetch_json: raise_for_status); nothing
\* between there and Command.handle catches.
FetchJsonRaise ==
    /\ gpc \in {"compare", "compare2"} \/ (gpc = "parents" /\ pidx <= Len(compareResponse.merge_base_commit.parents))
    /\ gpc' = "raised"
    /\ UNCHANGED <<mapVars, runVars, repos, rq, repo, left, queryVars, pushed>>

\* Lines 223-248: the pulse message is built from what query_data returned
\* and handed to PushLoader().process; ingestGitPushes goes on with its loop.
PushLoaderProcess ==
    /\ gpc = "pulse"
    /\ pushed' = Append(pushed, [loader |-> "PushLoader", project |-> repo.project])
    /\ left' = IF left > 0 THEN left - 1 ELSE left
    /\ gpc' = IF left' > 0 THEN "ingest" ELSE "done"
    /\ UNCHANGED <<mapVars, runVars, repos, rq, repo, queryVars>>

\* Lines 349-355: Repository.objects.get(name=project, ...) raises without a
\* row; with one, HgPushlogProcess().run gets the pushlog url of that row.
HgPushCall ==
    /\ gpc = "start" /\ rq.op = "push"
    /\ IF RepoFound(rq.project)
       THEN /\ pushed' = Append(pushed, [loader |-> "HgPushlogProcess", project |-> rq.project])
            /\ gpc' = "done"
       ELSE /\ pushed' = pushed
            /\ gpc' = "raised"
    /\ UNCHANGED <<mapVars, runVars, repos, rq, repo, left, queryVars>>

\* No push ingestion under way.
PushIdle ==
    /\ repos = {} /\ rq = [op |-> None, project |-> None] /\ gpc = "idle"
    /\ repo = NoRepo /\ left = 0 /\ QueryIdle /\ pushed = <<>>

---------------------------------------------------------------------------
Idle ==
    /\ pc = "start" /\ perr = "none"
    /\ continuationToken = EmptyStr /\ query = None /\ ftasks = <<>>
    /\ tasks = UnboundLocal
    /\ units = <<>> /\ held = 0
    /\ reqLog = <<>> /\ responses = <<>> /\ fetchErr = FALSE
    /\ hist = NoHist
    /\ indexStatus = 0 /\ gather = NoGather

Init ==
    /\ mapSrc = EXCHANGE_EVENT_MAP
    /\ mapItems = mapSrc
    /\ stateToExchange = EmptyDict
    /\ mpc = "building"
    /\ Idle
    /\ PushIdle

Next ==
    \/ ImportStep
    \/ GetDecisionTaskIdCall
    \/ FindTaskIdReturn
    \/ ProcessTasksCall
    \/ HandleTaskIdCall
    \/ \E r \in Requests : RequestReturn(r)
    \/ \E r \in Requests : RequestRaise(r)
    \/ ListTaskGroupReturn
    \/ FetchGroupTasksReturn
    \/ ListTaskGroupRaise
    \/ GatherReturn
    \/ GatherRaise
    \/ HandleTaskIdReturn
    \/ ProcessTasksReturn
    \/ \E i \in 1..Len(units) : StartTask(i)
    \/ \E i \in 1..Len(units) : HandleTaskLoop(i)
    \/ \E i \in 1..Len(units), n \in 0..MaxJobs : HandleMessageReturn(i, n)
    \/ \E i \in 1..Len(units) : HandleMessageRaise(i)
    \/ \E i \in 1..Len(units) : HandleTaskAwaitReturn(i)
    \/ \E i \in 1..Len(units) : \E k \in 1..Len(units[i].jobs) : JobStart(i, k)
    \/ \E i \in 1..Len(units) : \E k \in 1..Len(units[i].jobs) : JobAcquire(i, k)
    \/ \E i \in 1..Len(units) : \E k \in 1..Len(units[i].jobs) : ProcessJobReturn(i, k)
    \/ \E i \in 1..Len(units) : \E k \in 1..Len(units[i].jobs) : ProcessJobRaise(i, k)

Spec == Init /\ [][Next]_vars

---------------------------------------------------------------------------
\* The import loop alone, over every forward mapping of at most MaxMapSize
\* items: distinct keys (a dict), values free to collide.

MapKeys == {"task-completed", "task-failed", "task-exception", "task-running"}
MapValues == {"completed", "failed", "exception"}

Dicts ==
    UNION { { m \in [1..n -> MapKeys \X MapValues] :
                \A a, b \in 1..n : m[a][1] = m[b][1] => a = b } : n \in 0..MaxMapSize }

MapperInit ==
    /\ mapSrc \in Dicts
    /\ mapItems = mapSrc
    /\ stateToExchange = EmptyDict
    /\ mpc = "building"
    /\ Idle
    /\ PushIdle

MapperNext == ImportStep

MapperSpec == MapperInit /\ [][MapperNext]_vars

---------------------------------------------------------------------------
\* The push ingestions alone, for every Repository table over Projects and
\* every requested operation and project.

PushInit ==
    /\ mapSrc = EXCHANGE_EVENT_MAP
    /\ mapItems = mapSrc
    /\ stateToExchange = EmptyDict
    /\ mpc = "building"
    /\ Idle
    /\ repos \in SUBSET Projects
    /\ rq \in [op : Ops, project : Projects]
    /\ gpc = "start"
    /\ repo = NoRepo /\ left = 0 /\ QueryIdle /\ pushed = <<>>

PushNext ==
    \/ IngestGitPushCall
    \/ IngestGitPushesCall
    \/ IngestGitPushRepoMeta
    \/ CompareFirst
    \/ ParentFetch
    \/ CompareSecond
    \/ FetchJsonRaise
    \/ PushLoaderProcess
    \/ HgPushCall

PushSpec == PushInit /\ [][PushNext]_vars

---------------------------------------------------------------------------
\* Properties.

UnitIds == 1..Len(units)

JobIds(i) == 1..Len(units[i].jobs)

CallOver == hist.call \in UnitIds /\ units[hist.call].st \in Finished

Count(seq, x) == Cardinality({k \in 1..Len(seq) : seq[k] = x})

IsPrefix(a, b) == Len(a) <= Len(b) /\ \A k \in 1..Len(a) : a[k] = b[k]

Concat(pages) ==
    LET RECURSIVE cat(_)
        cat(k) == IF k = 0 THEN <<>> ELSE cat(k - 1) \o pages[k].tasks
    IN cat(Len(pages))

ExchangeOf(state) ==
    LET k == CHOOSE j \in 1..Len(EXCHANGE_EVENT_MAP) : EXCHANGE_EVENT_MAP[j][2] = state
    IN EXCHANGE_EVENT_MAP[k][1]

\* The messages of a task's runs, newest run first.
NewestFirst(task) ==
    LET n == Len(task.runs)
    IN [k \in 1..n |-> [exchange |-> ExchangeOf(task.runs[n + 1 - k].state),
                        taskId |-> task.taskId,
                        runs |-> task.runs,
                        runId |-> task.runs[n + 1 - k].runId]]

Loading == {p \in UnitIds \X (1..MaxJobs + 1) : p[2] \in JobIds(p[1]) /\ units[p[1]].jobs[p[2]] = "loading"}

\* C1: failure isolation in the dispatcher.  No failure of a unit makes
\* await_futures raise, neither into processTasks (task units) nor into
\* handleTask (job units); and once a batch is over none of its units is left
\* unstarted, whatever units failed.
C1_FailureIsolation ==
    /\ perr # "UnitError"
    /\ \A i \in UnitIds : units[i].err # "UnitError"
    /\ (tasks.bound /\ pc \in {"done", "raised"}) => \A i \in UnitIds : units[i].st # "new"
    /\ \A i \in UnitIds :
         (units[i].st = "running" /\ units[i].hpc # "await") =>
            \A k \in JobIds(i) : units[i].jobs[k] # "new"

\* C1 witness: the first task unit failed, the second ran, and in it a job
\* batch whose first unit failed and whose second unit completed was awaited.
C1_Witness ==
    /\ pc = "dispatch" /\ Len(units) = 2
    /\ units[1].st = "failed"
    /\ units[2].st = "running" /\ units[2].hpc = "loop"
    /\ units[2].jobs = <<"failed", "done">>

\* C2: Load Bridge slot release.  Every process_job_with_threads call that
\* has exited has given its slot back, so the slots held are exactly those of
\* the calls now loading, and none is held once the driver is over.
C2_SlotReleased ==
    /\ held = Cardinality(Loading)
    /\ pc \in {"done", "raised"} => held = 0

\* C3: task-group fetch failure.  Once a listing request has failed,
\* processTasks is over without an exception and without any task unit.
C3_FetchFailureYieldsEmptyBatch ==
    fetchErr => (pc = "done" /\ perr = "none" /\ units = <<>>)

\* C4: per-run failure isolation in handleTask.  handleTask never raises
\* because classifying a run raised, and when the call is over every run of
\* the task was visited, newest first.
C4_RunFailureIsolated ==
    /\ \A i \in UnitIds : units[i].err \notin {"KeyError", "UnboundLocalError"}
    /\ CallOver =>
         hist.visited = [k \in 1..Len(hist.task.runs) |->
                            hist.task.runs[Len(hist.task.runs) + 1 - k].runId]

\* C5: pagination.  The first request carries no token, each follow-up the
\* token of the response before it, no request follows a response without a
\* token, the tasks collected are the pages' tasks in page order, each once,
\* and that sequence is what fetchGroupTasks returns.
C5_PaginationState ==
    /\ Len(reqLog) > 0 => reqLog[1] = None
    /\ \A k \in 1..Len(responses) :
         /\ k < Len(reqLog) => reqLog[k + 1] = responses[k].continuationToken
         /\ k < Len(responses) => responses[k].continuationToken # None
    /\ pc \in {"fetch", "fetched"} => ftasks = Concat(responses)
    /\ pc = "fetched" =>
         /\ Len(reqLog) = Len(responses)
         /\ responses[Len(responses)].continuationToken = None

C5_Pagination ==
    /\ []C5_PaginationState
    /\ [][pc = "fetched" => (tasks'.bound /\ tasks'.val = Concat(responses))]_vars

\* C5 witness: three pages with tokens a, b and none, tasks on the first and
\* the last page, all received.
C5_Witness ==
    /\ pc = "fetched" /\ Len(responses) = 3
    /\ reqLog = <<None, "a", "b">>
    /\ responses[1].tasks = <<1>> /\ responses[3].tasks = <<2>>

\* C6: classification order.  The messages handleTask submits to
\* handleMessage are those of the task's runs newest first, each carrying the
\* whole runs list, the run's runId and the exchange of the run's state; and
\* when the call is over every run has been submitted, once.
C6_ClassificationOrder ==
    hist.call > 0 =>
        /\ IsPrefix(hist.submitted, NewestFirst(hist.task))
        /\ CallOver => hist.submitted = NewestFirst(hist.task)

\* C7: each normalized job is loaded exactly once.  No payload is handed to
\* the Load Bridge more often than handleMessage returned it, and when the
\* handleTask call is over the payloads loaded are the payloads returned.
C7_LoadedExactlyOnce ==
    /\ \A k \in 1..Len(hist.loaded) :
         Count(hist.loaded, hist.loaded[k]) <= Count(hist.returned, hist.loaded[k])
    /\ CallOver => Len(hist.loaded) = Len(hist.returned)

\* C8: batch completeness.  When processTasks has returned, every task the
\* fetcher returned has a unit and every unit has finished; handleTaskId is
\* over only after its handleTask call; and handleTask is at or past the loop
\* head only with every job unit of the run before finished.
C8_BatchCompleteness ==
    /\ (tasks.bound /\ pc = "done") =>
         /\ Len(units) = Len(tasks.val)
         /\ \A i \in UnitIds : units[i].st \in Finished
    /\ (~tasks.bound /\ pc = "done") => \A i \in UnitIds : units[i].st \in Finished
    /\ \A i \in UnitIds :
         (units[i].st = "running" /\ units[i].hpc # "await") =>
            \A k \in JobIds(i) : units[i].jobs[k] \in Finished

\* C8 witness: processTasks returned from a batch of two task units.
C8_Witness ==
    /\ tasks.bound /\ pc = "done" /\ Len(units) = 2
    /\ hist.call = 2 /\ Len(hist.loaded) = 2

\* C9: connection serialization.  The calls that have passed
\* acquire_connection and not release_connection never number more than the
\* slots: the slots taken never exceed SlotCount, and the calls now loading
\* are among them.
C9_ConnectionSerialization ==
    /\ held <= SlotCount
    /\ Cardinality(Loading) <= held

\* C9 witness: every slot is taken while a call is loading.
C9_Witness == held = SlotCount /\ Cardinality(Loading) = 1

\* C10: the Exchange-State Mapper is a strict inverse and fails fast.  Once
\* the import loop is over, a forward mapping with two keys of one value has
\* ended in a fatal error, and any other has ended with
\* stateToExchange[value] = key for every item.
Injective(m) == \A a, b \in 1..Len(m) : m[a][2] = m[b][2] => a = b

C10_StrictInverseOrFatal ==
    mpc # "building" =>
        IF Injective(mapSrc)
        THEN /\ mpc = "built"
             /\ \A k \in 1..Len(mapSrc) : stateToExchange[mapSrc[k][2]] = mapSrc[k][1]
        ELSE mpc = "fatal"

\* C11: merge-base correction.  The first comparison is against the
\* configured branch.  With a merge base reported, its parents are inspected
\* in the order reported up to the first one that has a parent; that one's
\* sha is the base, or the branch if none has a parent; a second comparison is
\* issued with that base and its commits are the ones returned.  With no
\* merge base reported there is the one comparison and the base is the branch.
Qualifying == {k \in 1..Len(parentLog) : parentLog[k].hasParents}

C11_MergeBaseCorrection ==
    LET parents == firstResponse.merge_base_commit.parents
    IN /\ Len(compareLog) > 0 => compareLog[1] = repo.branch
       /\ Len(parentLog) <= Len(parents)
       /\ \A k \in 1..Len(parentLog) : parentLog[k].sha = parents[k]
       /\ \A k \in Qualifying : k = Len(parentLog)
       /\ result.set =>
            IF firstResponse.merge_base_commit.present
            THEN /\ IF Qualifying # {}
                    THEN result.base = parents[Len(parentLog)]
                    ELSE result.base = repo.branch /\ Len(parentLog) = Len(parents)
                 /\ compareLog = <<repo.branch, result.base>>
                 /\ Len(result.commits) = Len(compareResponse.commits)
                 /\ \A k \in 1..Len(result.commits) : result.commits[k].id = compareResponse.commits[k].sha
            ELSE /\ compareLog = <<repo.branch>>
                 /\ result.base = repo.branch
                 /\ parentLog = <<>>

\* C11 witness: a merge base with two parents, the first without parents and
\* the second with; the second comparison, against the second parent, gave
\* other commits than the first.
C11_Witness ==
    /\ result.set /\ result.base = "p2"
    /\ parentLog = << [sha |-> "p1", hasParents |-> FALSE], [sha |-> "p2", hasParents |-> TRUE] >>
    /\ compareLog = <<"master", "p2">>
    /\ firstResponse.commits = << ApiCommit(1) >>
    /\ Len(result.commits) = 2

\* C12: a decision task that is not found is fatal.  Once the index has
\* answered not-found, Command.handle is over with that exception, and no
\* task-group listing request was sent, processTasks was not called, no task
\* was handled and no job was loaded.
C12_DecisionTaskNotFoundFatal ==
    indexStatus = NotFound =>
        /\ pc = "raised" /\ perr = "IndexNotFound"
        /\ reqLog = <<>> /\ ~fetchErr /\ ~tasks.bound
        /\ units = <<>> /\ hist = NoHist /\ held = 0

\* C12 witness: the index answered not-found and the command is over.
C12_Witness == indexStatus = NotFound /\ pc = "raised" /\ mpc = "built"

\* C13: missing repository metadata is fatal.  A push ingestion asked for a
\* project without a Repository row raises before any request is sent and
\* before any push is handed to a loader, and it does not end normally; and
\* the metadata an ingestion works with, and every push it hands to a loader,
\* is that of the project asked for.
C13_MissingRepositoryFatal ==
    /\ rq.project \notin repos =>
         /\ gpc \in {"start", "ingest", "raised"}
         /\ compareLog = <<>> /\ pushed = <<>>
    /\ repo # NoRepo => repo.project = rq.project
    /\ \A k \in 1..Len(pushed) : pushed[k].project = rq.project

\* C14: every scheduled unit eventually finishes.  As long as the driver is
\* not over some step can be taken: no unit waits for a worker thread of the
\* shared executor or for a connection slot that will never come, so with
\* every collaborator call returning or raising each unit completes or fails
\* and processTasks returns.
C14_EveryUnitFinishes == pc \in {"done", "raised"} \/ ENABLED Next

\* C15: the single-task entry path.  Once handleTaskId is called no
\* task-group listing request is ever sent; status(taskId) and task(taskId)
\* are requested once each; handleTask is called at most once, only with both
\* responses there, and exactly once when handleTaskId returns; and with a
\* failed request handleTask is not called and no job is loaded.
C15_SingleTaskEntry ==
    gather.nStatus > 0 =>
        /\ pc \notin {"index", "decided", "fetch", "fetched", "dispatch"}
        /\ indexStatus = 0 /\ reqLog = <<>> /\ ~fetchErr /\ ~tasks.bound
        /\ gather.nStatus = 1 /\ gather.nTask = 1
        /\ gather.calls <= 1 /\ Len(units) = gather.calls
        /\ gather.calls = 1 => (gather.status = "ok" /\ gather.task = "ok")
        /\ hist.call > 0 => gather.calls = 1
        /\ pc = "done" => gather.calls = 1
        /\ (gather.status = "failed" \/ gather.task = "failed") =>
              /\ gather.calls = 0 /\ hist = NoHist /\ held = 0
              /\ pc \in {"gather", "raised"}

\* C15 witness: handleTaskId returned after its one handleTask call, which
\* loaded two jobs.
C15_Witness ==
    /\ pc = "done" /\ gather.calls = 1
    /\ gather.status = "ok" /\ gather.task = "ok"
    /\ Len(hist.loaded) = 2

\* C16: commit order is preserved.  The commits query_data returns are as
\* many as the commits of the last comparison response (the one against the
\* corrected base when a merge base was reported), in the same order, each
\* with that commit's message, author and committer and its sha as id.
C16_CommitOrderPreserved ==
    result.set =>
        /\ Len(compareLog) = (IF firstResponse.merge_base_commit.present THEN 2 ELSE 1)
        /\ Len(result.commits) = Len(compareResponse.commits)
        /\ \A k \in 1..Len(result.commits) :
             LET c == compareResponse.commits[k]
             IN result.commits[k] =
                  [message |-> c.message, author |-> c.author, committer |-> c.committer, id |-> c.sha]

\* C16 witness: query_data returned the two commits of the second comparison,
\* 2 before 1, where the first comparison had reported 1 before 2.
C16_Witness ==
    /\ result.set /\ Len(compareLog) = 2
    /\ firstResponse.commits = << ApiCommit(1), ApiCommit(2) >>
    /\ compareResponse.commits = << ApiCommit(2), ApiCommit(1) >>
    /\ result.commits[1].id = <<"sha", 2>> /\ result.commits[2].id = <<"sha", 1>>

\* C17: units of one batch never overlap.  Unit i+1 of a batch has started
\* only if unit i has completed or failed, for task units and for the job
\* units of a handleTask call alike; so at most one task unit is running and
\* at most one job unit is in a worker thread at any time.
InOrder(sts) == \A a, b \in 1..Len(sts) : (a < b /\ sts[b] # "new") => sts[a] \in Finished

NoLoadPending ==
    /\ \A i \in UnitIds : \A k \in JobIds(i) : units[i].jobs[k] \in Finished
    /\ \A j \in 1..Len(hist.returned) : Count(hist.loaded, hist.returned[j]) >= 1

C18_LoadBeforeNextClassification ==
    [][Len(hist'.submitted) > Len(hist.submitted) => NoLoadPending]_vars

\* C18 witness: the older of two runs is being classified after the two
\* loads of the newer run, one completed and one failed.
C18_Witness ==
    /\ Len(hist.submitted) = 2 /\ Len(hist.loaded) = 2
    /\ \E i \in UnitIds :
         /\ units[i].st = "running" /\ units[i].hpc = "call" /\ units[i].ridx = 1
         /\ units[i].jobs = <<"done", "failed">>

====
